---- MODULE Spec2Model ----
(***************************************************************************)
(* The inventory / order / profile layer of tonomat_bot.py.                *)
(*                                                                         *)
(* One sqlite connection and one cursor are shared by every handler.  A    *)
(* handler is a coroutine: its body runs without interruption up to its    *)
(* only await, the reply_text call that ends it, so the body of a handler  *)
(* is one step and several handlers overlap only while their replies are   *)
(* being sent.  db is what the shared connection sees (uncommitted writes  *)
(* included), disk is what has been committed.                             *)
(*                                                                         *)
(* Spec: the storage never fails and handlers overlap.  SpecF: statements  *)
(* may raise, one handler at a time.                                       *)
(***************************************************************************)
EXTENDS Integers, Sequences, FiniteSets, TLC

\* ------------------------------------------------------------------ bounds
NumUsers == 2
NumSessions == 2
MaxItems == 2
MaxOrders == 2
MaxFaults == 1

Users == 1..NumUsers
Sessions == 1..NumSessions

\* ------------------------------------------------------------------ state
VARIABLES
    db,         \* the tables as the shared connection sees them
    disk,       \* the tables as last committed
    lastrowid,  \* rowid of the connection's last successful INSERT (0: None)
    session,    \* per chat session: the handler in flight and its reply
    faults      \* how many statements the storage has failed so far

vars == <<db, disk, lastrowid, session, faults>>

\* CREATE TABLE IF NOT EXISTS items / profiles / orders on a fresh market.db
EmptyTables == [items |-> <<>>, profiles |-> <<>>, orders |-> <<>>]

\* the columns' defaults: stock INTEGER DEFAULT 1, counters DEFAULT 0
DefaultStock == 1
DefaultCounter == 0

IdleSession ==
    [pc |-> "idle", op |-> "none", user |-> 0, arg |-> 0, kind |-> "none",
     val |-> 0]

\* the connection with its cursor, as the handlers' statements act on it
Store == [db |-> db, disk |-> disk, last |-> lastrowid]

\* ------------------------------------------------------- argument parsing
DigitText == <<"0", "1", "2", "3", "4", "5", "6", "7", "8", "9">>

\* int(context.args[0]): the item id, or ValueError
ParseInt(t) ==
    IF \E n \in 1..Len(DigitText) : DigitText[n] = t
    THEN [ok |-> TRUE, val |-> (CHOOSE n \in 1..Len(DigitText) : DigitText[n] = t) - 1]
    ELSE [ok |-> FALSE, val |-> 0]

\* float(context.args[-1]): the price in tenths of a BTC, or ValueError
ParseFloat(t) ==
    CASE t = "1.5" -> [ok |-> TRUE, val |-> 15]
      [] t = "0" -> [ok |-> TRUE, val |-> 0]
      [] OTHER -> [ok |-> FALSE, val |-> 0]

\* what a user may type after /sell and after /buy
SellArgs == {<<"Widget">>, <<"Widget", "1.5">>, <<"Widget", "0">>,
             <<"Widget", "abc">>}
BuyArgs == {<<>>, <<"x">>} \cup {<<DigitText[n + 1]>> : n \in 0..(MaxItems + 1)}

\* ------------------------------------------------------------- statements
\* a storage fault: the statement it strikes (0: none) and whether sqlite
\* rolled the open transaction back on its own (I/O error, disk full) or
\* left it open (busy, locked)
NoFault == [at |-> 0, rb |-> FALSE]
Faults == {NoFault} \cup [at : 1..5, rb : BOOLEAN]

Out(st, kind, val, stats, listing) ==
    [st |-> st, kind |-> kind, val |-> val, stats |-> stats, listing |-> listing]

\* the statement raised: nothing in the handlers rolls back or commits
Raised(st, f) ==
    Out(IF f.rb THEN [st EXCEPT !.db = st.disk] ELSE st,
        "StorageUnavailable", 0, <<0, 0>>, {})

\* faulty variant: the commit is forgotten
Commit_Forgotten(st) == st

\* conn.commit()
Commit(st) == [st EXCEPT !.disk = st.db]

ProfileRows(d, u) == {k \in DOMAIN d.profiles : d.profiles[k].user_id = u}
HasProfile(d, u) == ProfileRows(d, u) # {}
ItemIds(d) == DOMAIN d.items
OrdersOfItem(d, i) == {k \in DOMAIN d.orders : d.orders[k].item_id = i}
OrdersOfUser(d, u) == {k \in DOMAIN d.orders : d.orders[k].user_id = u}
ItemsOfSeller(d, u) == {i \in DOMAIN d.items : d.items[i].seller_id = u}

\* a row enters profiles at its place in key order: user_id INTEGER PRIMARY
\* KEY is the table's rowid
PutRow(rows, row) ==
    LET k == Cardinality({j \in DOMAIN rows : rows[j].user_id < row.user_id})
    IN SubSeq(rows, 1, k) \o <<row>> \o SubSeq(rows, k + 1, Len(rows))

\* faulty variant: INSERT OR REPLACE, an existing row is replaced by a fresh one
InsertProfile_Replace(st, u) ==
    LET fresh == [user_id |-> u, items_sold |-> DefaultCounter,
                  items_bought |-> DefaultCounter]
    IN IF HasProfile(st.db, u)
       THEN [st EXCEPT
                !.db.profiles = [k \in DOMAIN @ |->
                    IF @[k].user_id = u THEN fresh ELSE @[k]],
                !.last = u]
       ELSE [st EXCEPT !.db.profiles = PutRow(@, fresh), !.last = u]

\* faulty variant: a plain INSERT into a table whose user_id is not a key
InsertProfile_NoIgnore(st, u) ==
    [st EXCEPT
        !.db.profiles = PutRow(@, [user_id |-> u,
                                   items_sold |-> DefaultCounter,
                                   items_bought |-> DefaultCounter]),
        !.last = u]

\* INSERT OR IGNORE INTO profiles (user_id) VALUES (?): user_id is the
\* PRIMARY KEY, so a second row for it is ignored
InsertProfile(st, u) ==
    IF HasProfile(st.db, u)
    THEN st
    ELSE [st EXCEPT
            !.db.profiles = PutRow(@, [user_id |-> u,
                                       items_sold |-> DefaultCounter,
                                       items_bought |-> DefaultCounter]),
            !.last = u]

\* faulty variant: INSERT OR REPLACE under the highest id in use
InsertItem_ReuseId(st, u, price) ==
    LET row == [seller_id |-> u, stock |-> DefaultStock]
        n == Len(st.db.items)
    IN IF n = 0
       THEN [st EXCEPT !.db.items = <<row>>, !.last = 1]
       ELSE [st EXCEPT !.db.items = [@ EXCEPT ![n] = row], !.last = n]

\* INSERT INTO items (desc, price, seller_id, stock) VALUES (?, ?, ?, 1);
\* desc and price are stored as given and only ever read back for display
InsertItem(st, u, price) ==
    [st EXCEPT
        !.db.items = Append(@, [seller_id |-> u, stock |-> DefaultStock]),
        !.last = Len(st.db.items) + 1]

\* UPDATE profiles SET items_sold = items_sold + 1 WHERE user_id = ?
IncrementSold(st, u) ==
    [st EXCEPT !.db.profiles =
        [k \in DOMAIN @ |->
            IF @[k].user_id = u
            THEN [@[k] EXCEPT !.items_sold = @ + 1]
            ELSE @[k]]]

\* UPDATE profiles SET items_bought = items_bought + 1 WHERE user_id = ?
IncrementBought(st, u) ==
    [st EXCEPT !.db.profiles =
        [k \in DOMAIN @ |->
            IF @[k].user_id = u
            THEN [@[k] EXCEPT !.items_bought = @ + 1]
            ELSE @[k]]]

\* faulty variant: an id that matches no row is taken for an item in stock
SelectAvailable_Unchecked(d, id) ==
    id \notin ItemIds(d) \/ d.items[id].stock > 0

\* faulty variant: SELECT ... WHERE id = ?, the stock is not looked at
SelectAvailable_AnyStock(d, id) ==
    id \in ItemIds(d)

\* SELECT desc, price, stock FROM items WHERE id = ? AND stock > 0
SelectAvailable(d, id) ==
    id \in ItemIds(d) /\ d.items[id].stock > 0

\* faulty variant: the order is inserted through another cursor, the shared
\* cursor's lastrowid stays what it was
InsertOrder_OtherCursor(st, u, id) ==
    [st EXCEPT
        !.db.orders = Append(@, [user_id |-> u, item_id |-> id,
                                 status |-> "pending_payment"])]

\* INSERT INTO orders (user_id, item_id, status, drop_location)
InsertOrder(st, u, id) ==
    [st EXCEPT
        !.db.orders = Append(@, [user_id |-> u, item_id |-> id,
                                 status |-> "pending_payment"]),
        !.last = Len(st.db.orders) + 1]

\* faulty variant: the UPDATE matches no row, the unit is not taken
DecrementStock_Skipped(st, id) == st

\* faulty variant: UPDATE items SET stock = stock + 1, the sign is wrong
DecrementStock_Restock(st, id) ==
    [st EXCEPT !.db.items[id].stock = @ + 1]

\* faulty variant: UPDATE items SET stock = stock - 1, the WHERE clause forgotten
DecrementStock_EveryItem(st, id) ==
    [st EXCEPT !.db.items =
        [i \in DOMAIN @ |-> [@[i] EXCEPT !.stock = @ - 1]]]

\* UPDATE items SET stock = stock - 1 WHERE id = ?
DecrementStock(st, id) ==
    [st EXCEPT !.db.items =
        [i \in DOMAIN @ |->
            IF i = id THEN [@[i] EXCEPT !.stock = @ - 1] ELSE @[i]]]

\* faulty variant: SELECT ... FROM items, sold-out items included
SelectActive_All(d) ==
    {[id |-> i, stock |-> d.items[i].stock] : i \in ItemIds(d)}

\* SELECT id, desc, price, stock FROM items WHERE stock > 0
SelectActive(d) ==
    {[id |-> i, stock |-> d.items[i].stock] :
        i \in {j \in ItemIds(d) : d.items[j].stock > 0}}

\* SELECT items_sold, items_bought FROM profiles WHERE user_id = ? .fetchone()
SelectStats(d, u) ==
    IF HasProfile(d, u)
    THEN LET k == CHOOSE j \in ProfileRows(d, u) :
                    \A m \in ProfileRows(d, u) : j <= m
         IN [found |-> TRUE,
             row |-> <<d.profiles[k].items_sold, d.profiles[k].items_bought>>]
    ELSE [found |-> FALSE, row |-> <<0, 0>>]

\* --------------------------------------------------------------- handlers
\* start: ensure the profile, commit, welcome
StartStep(st, u, f) ==
    IF f.at = 1 THEN Raised(st, f) ELSE
    LET s1 == InsertProfile(st, u) IN
    IF f.at = 2 THEN Raised(s1, f) ELSE
    Out(Commit(s1), "welcome", 0, <<0, 0>>, {})

\* shop: the items in stock
ShopStep(st, f) ==
    IF f.at = 1 THEN Raised(st, f) ELSE
    LET items == SelectActive(st.db) IN
    IF items = {}
    THEN Out(st, "empty", 0, <<0, 0>>, {})
    ELSE Out(st, "catalog", 0, <<0, 0>>, items)

\* sell: insert the item, commit, count it for the seller, commit
SellStep(st, u, args, f) ==
    IF Len(args) < 2 THEN Out(st, "usage", 0, <<0, 0>>, {}) ELSE
    LET p == ParseFloat(args[Len(args)]) IN
    IF ~p.ok THEN Out(st, "bad_price", 0, <<0, 0>>, {}) ELSE
    IF f.at = 1 THEN Raised(st, f) ELSE
    LET s1 == InsertItem(st, u, p.val) IN
    IF f.at = 2 THEN Raised(s1, f) ELSE
    LET s2 == Commit(s1)
        item_id == s2.last
    IN
    IF f.at = 3 THEN Raised(s2, f) ELSE
    LET s3 == IncrementSold(s2, u) IN
    IF f.at = 4 THEN Raised(s3, f) ELSE
    Out(Commit(s3), "listed", item_id, <<0, 0>>, {})

\* faulty variant: the buyer's profile is ensured and committed before the item
\* is looked up
BuyNotFound_EnsureProfile(st, u) ==
    Out(Commit(InsertProfile(st, u)), "OutOfStockOrNotFound", 0, <<0, 0>>, {})

\* faulty variant: the refusal tells how many items the catalogue ever held
BuyNotFound_LeakSize(st, u) ==
    Out(st, "OutOfStockOrNotFound", Len(st.db.items), <<0, 0>>, {})

\* buy, the item is absent or sold out: reply and return, nothing written
BuyNotFound(st, u) ==
    Out(st, "OutOfStockOrNotFound", 0, <<0, 0>>, {})

\* buy: read the item, insert the order, take one unit, count it, commit
BuyStep(st, u, args, f) ==
    IF Len(args) # 1 THEN Out(st, "usage", 0, <<0, 0>>, {}) ELSE
    LET p == ParseInt(args[1]) IN
    IF ~p.ok THEN Out(st, "bad_id", 0, <<0, 0>>, {}) ELSE
    IF f.at = 1 THEN Raised(st, f) ELSE
    IF ~SelectAvailable(st.db, p.val) THEN BuyNotFound(st, u) ELSE
    IF f.at = 2 THEN Raised(st, f) ELSE
    LET s1 == InsertOrder(st, u, p.val) IN
    IF f.at = 3 THEN Raised(s1, f) ELSE
    LET s2 == DecrementStock(s1, p.val) IN
    IF f.at = 4 THEN Raised(s2, f) ELSE
    LET s3 == IncrementBought(s2, u) IN
    IF f.at = 5 THEN Raised(s3, f) ELSE
    LET s4 == Commit(s3) IN
    Out(s4, "ordered", s4.last, <<0, 0>>, {})

\* faulty variant: the counters are read without ensuring the profile
ProfileStep_NoEnsure(st, u, f) ==
    IF f.at = 1 THEN Raised(st, f) ELSE
    LET stats == SelectStats(st.db, u) IN
    IF stats.found
    THEN Out(st, "stats", 0, stats.row, {})
    ELSE Out(st, "no_profile", 0, <<0, 0>>, {})

\* profile: ensure the profile, commit, read the counters
ProfileStep(st, u, f) ==
    IF f.at = 1 THEN Raised(st, f) ELSE
    LET s1 == InsertProfile(st, u) IN
    IF f.at = 2 THEN Raised(s1, f) ELSE
    LET s2 == Commit(s1) IN
    IF f.at = 3 THEN Raised(s2, f) ELSE
    LET stats == SelectStats(s2.db, u) IN
    IF stats.found
    THEN Out(s2, "stats", 0, stats.row, {})
    ELSE Out(s2, "no_profile", 0, <<0, 0>>, {})

\* ---------------------------------------------------------------- actions
Init ==
    /\ db = EmptyTables
    /\ disk = EmptyTables
    /\ lastrowid = 0
    /\ session = [s \in Sessions |-> IdleSession]
    /\ faults = 0

\* the handler's body ran to its await (or raised): its effect on the
\* connection, and in the session who asked for what, how it ended and the
\* id it reports (the counters and the listing of a reply are in r only)
Handled(s, op, u, arg, r) ==
    /\ r.kind = "StorageUnavailable" => faults < MaxFaults
    /\ db' = r.st.db
    /\ disk' = r.st.disk
    /\ lastrowid' = r.st.last
    /\ session' = [session EXCEPT ![s] =
            [pc |-> IF r.kind = "StorageUnavailable" THEN "raised" ELSE "replying",
             op |-> op, user |-> u, arg |-> arg, kind |-> r.kind,
             val |-> r.val]]
    /\ faults' = IF r.kind = "StorageUnavailable" THEN faults + 1 ELSE faults

\* an incoming update is handled in the first session that has no handler
\* in flight (sessions are interchangeable)
Free(s) ==
    /\ session[s].pc = "idle"
    /\ \A t \in Sessions : t < s => session[t].pc # "idle"

Start(s, u, f) ==
    /\ Free(s)
    /\ Handled(s, "start", u, 0, StartStep(Store, u, f))

\* shop uses the caller's id for its log line only
Shop(s, f) ==
    /\ Free(s)
    /\ Handled(s, "shop", 0, 0, ShopStep(Store, f))

Sell(s, u, args, f) ==
    /\ Free(s)
    /\ Len(db.items) < MaxItems
    /\ Handled(s, "sell", u, 0, SellStep(Store, u, args, f))

Buy(s, u, args, f) ==
    /\ Free(s)
    /\ Len(db.orders) < MaxOrders
    /\ Handled(s, "buy", u,
               IF Len(args) # 1 THEN 0 ELSE ParseInt(args[1]).val,
               BuyStep(Store, u, args, f))

Profile(s, u, f) ==
    /\ Free(s)
    /\ Handled(s, "profile", u, 0, ProfileStep(Store, u, f))

\* await update.message.reply_text(...) returns: the handler is over
ReplyText(s) ==
    /\ session[s].pc = "replying"
    /\ session' = [session EXCEPT ![s] = IdleSession]
    /\ UNCHANGED <<db, disk, lastrowid, faults>>

\* the exception left the handler: the dispatcher logs it, nothing is sent
HandlerRaised(s) ==
    /\ session[s].pc = "raised"
    /\ session' = [session EXCEPT ![s] = IdleSession]
    /\ UNCHANGED <<db, disk, lastrowid, faults>>

\* the storage never fails
Next ==
    \E s \in Sessions, u \in Users :
        \/ Start(s, u, NoFault)
        \/ Shop(s, NoFault)
        \/ \E args \in SellArgs : Sell(s, u, args, NoFault)
        \/ \E args \in BuyArgs : Buy(s, u, args, NoFault)
        \/ Profile(s, u, NoFault)
        \/ ReplyText(s)

Spec == Init /\ [][Next]_vars

\* the application as main() builds it handles one update at a time
Sequential == {s \in Sessions : s = 1}

\* any statement may raise, as long as the storage has faults left
NextF ==
    \E s \in Sequential, u \in Users, f \in Faults :
        \/ Start(s, u, f)
        \/ Shop(s, f)
        \/ \E args \in SellArgs : Sell(s, u, args, f)
        \/ \E args \in BuyArgs : Buy(s, u, args, f)
        \/ Profile(s, u, f)
        \/ ReplyText(s)
        \/ HandlerRaised(s)

SpecF == Init /\ [][NextF]_vars

\* ================================================================= claims
InFlight(s, op) == session[s].pc = "replying" /\ session[s].op = op
IdText(i) == <<DigitText[i + 1]>>
SoldOf(d, u) == SelectStats(d, u).row[1]
BoughtOf(d, u) == SelectStats(d, u).row[2]

\* C1: an item has stock 1 and two purchases of it run, by the same or by
\* different buyers, in either order: the first is served, the second gets
\* OutOfStockOrNotFound, the stock ends at 0 and exactly one order names the
\* item; and of two overlapping purchases of one item at most one is served.
C1_RaceOneWinner ==
    /\ \A i \in ItemIds(db) : \A u1, u2 \in Users :
        db.items[i].stock = 1 =>
            LET a == BuyStep(Store, u1, IdText(i), NoFault)
                b == BuyStep(a.st, u2, IdText(i), NoFault)
            IN /\ a.kind = "ordered"
               /\ b.kind = "OutOfStockOrNotFound"
               /\ b.st.db.items[i].stock = 0
               /\ b.st.disk.items[i].stock = 0
               /\ Cardinality(OrdersOfItem(b.st.db, i)) = 1
               /\ Cardinality(OrdersOfItem(b.st.disk, i)) = 1
    /\ \A s, t \in Sessions :
        (s # t /\ InFlight(s, "buy") /\ InFlight(t, "buy")
         /\ session[s].arg = session[t].arg)
        => ~(session[s].kind = "ordered" /\ session[t].kind = "ordered")

\* two purchases of the same item overlap: one was served, one refused
C1_Witness ==
    \E s, t \in Sessions :
        /\ s # t /\ InFlight(s, "buy") /\ InFlight(t, "buy")
        /\ session[s].arg = session[t].arg
        /\ session[s].kind = "ordered"
        /\ session[t].kind = "OutOfStockOrNotFound"
        /\ session[s].arg \in ItemIds(db)
        /\ db.items[session[s].arg].stock = 0
        /\ Cardinality(OrdersOfItem(db, session[s].arg)) = 1

\* C2: no item's stock is ever negative, in the connection's view or on disk.
C2_StockNonNegative ==
    /\ \A i \in ItemIds(db) : db.items[i].stock >= 0
    /\ \A i \in ItemIds(disk) : disk.items[i].stock >= 0

\* a purchase of a sold-out item has just been refused
C2_Witness ==
    \E s \in Sessions :
        /\ InFlight(s, "buy") /\ session[s].kind = "OutOfStockOrNotFound"
        /\ session[s].arg \in ItemIds(db)
        /\ db.items[session[s].arg].stock = 0

\* C3: for every user with a profile, items_sold is the number of items the
\* user has listed.
C3_SoldMatchesListed ==
    \A u \in Users :
        HasProfile(db, u) => SoldOf(db, u) = Cardinality(ItemsOfSeller(db, u))

\* C4: for every user with a profile, items_bought is the number of orders
\* the user has placed.
C4_BoughtMatchesOrders ==
    \A u \in Users :
        HasProfile(db, u) => BoughtOf(db, u) = Cardinality(OrdersOfUser(db, u))

\* C5: a purchase of an item in stock takes exactly one unit of that item
\* and of no other, adds exactly one order, pending_payment, naming the
\* buyer and the item, and the buyer's profile read afterwards shows one more
\* item bought than before the purchase.
C5_PurchaseEffect ==
    \A u \in Users : \A i \in ItemIds(db) :
        db.items[i].stock > 0 =>
            LET r == BuyStep(Store, u, IdText(i), NoFault)
                after == ProfileStep(r.st, u, NoFault)
            IN /\ r.kind = "ordered"
               /\ r.st.db.items[i].stock = db.items[i].stock - 1
               /\ \A j \in ItemIds(db) :
                    j # i => r.st.db.items[j] = db.items[j]
               /\ r.st.db.orders =
                    Append(db.orders, [user_id |-> u, item_id |-> i,
                                       status |-> "pending_payment"])
               /\ after.kind = "stats"
               /\ after.stats[2] = BoughtOf(db, u) + 1

\* C6: a purchase of an id no item has is refused with OutOfStockOrNotFound
\* and leaves the tables, in the connection and on disk, as they were.
C6_UnknownItemNoChange ==
    \A u \in Users : \A id \in 0..(MaxItems + 1) :
        id \notin ItemIds(db) =>
            LET r == BuyStep(Store, u, IdText(id), NoFault)
            IN /\ r.kind = "OutOfStockOrNotFound"
               /\ r.st.db = db
               /\ r.st.disk = disk

\* a first-time buyer has just been refused an id that no item has, next to
\* items that do exist
C6_Witness ==
    \E s \in Sessions :
        /\ InFlight(s, "buy") /\ session[s].kind = "OutOfStockOrNotFound"
        /\ session[s].arg \notin ItemIds(db)
        /\ ~HasProfile(db, session[s].user)
        /\ db.items # <<>>
        /\ db.profiles # <<>>

\* C7: what is on disk never holds part of a purchase: each item's orders
\* and remaining stock add up to the one unit it was listed with, and no
\* profile counts more purchases than its user has orders.
C7_NoPartialPurchase ==
    /\ \A i \in ItemIds(disk) :
        Cardinality(OrdersOfItem(disk, i)) + disk.items[i].stock = DefaultStock
    /\ \A k \in DOMAIN disk.orders : disk.orders[k].item_id \in ItemIds(disk)
    /\ \A u \in Users :
        HasProfile(disk, u) =>
            BoughtOf(disk, u) <= Cardinality(OrdersOfUser(disk, u))

\* C8: a listing that fails, on its arguments or on the storage, leaves on
\* disk neither an item nor a counter change.
C8_ListAllOrNothing ==
    [][\A s \in Sessions :
        (/\ session[s].pc = "idle"
         /\ session'[s].op = "sell"
         /\ session'[s].kind \in {"usage", "bad_price", "StorageUnavailable"})
        => (disk'.items = disk.items /\ disk'.profiles = disk.profiles)]_vars

\* C9: what shop lists is exactly the items whose stock is positive, each
\* with its stock, and it reports an empty shop exactly when there are none.
C9_CatalogInStock ==
    LET r == ShopStep(Store, NoFault)
        active == {i \in ItemIds(db) : db.items[i].stock > 0}
    IN /\ {e.id : e \in r.listing} = active
       /\ \A e \in r.listing : e.stock = db.items[e.id].stock /\ e.stock > 0
       /\ (r.kind = "empty") <=> (active = {})
       /\ r.kind \in {"empty", "catalog"}

\* a catalogue is on its way while a purchase that sold an item out is still
\* in flight
C9_Witness ==
    \E s, t \in Sessions :
        /\ InFlight(s, "shop") /\ session[s].kind = "catalog"
        /\ InFlight(t, "buy") /\ session[t].kind = "ordered"
        /\ \E i \in ItemIds(db) : db.items[i].stock = 0
        /\ \E i \in ItemIds(db) : db.items[i].stock > 0

\* C10: no user ever has two profile rows; ensuring a profile twice leaves
\* exactly one row for the user, with both counters at zero if the user was
\* new, and for a user who had a profile the table is unchanged.
C10_EnsureProfileIdempotent ==
    \A u \in Users :
        LET a == StartStep(Store, u, NoFault)
            b == StartStep(a.st, u, NoFault)
        IN /\ Cardinality(ProfileRows(db, u)) <= 1
           /\ Cardinality(ProfileRows(a.st.db, u)) = 1
           /\ Cardinality(ProfileRows(b.st.db, u)) = 1
           /\ b.st.db = a.st.db
           /\ b.st.disk = a.st.disk
           /\ ~HasProfile(db, u) => SelectStats(b.st.db, u).row = <<0, 0>>
           /\ HasProfile(db, u) => b.st.db.profiles = db.profiles

\* two start handlers of one new user overlap and the user has one row, at zero
C10_Witness ==
    \E s, t \in Sessions :
        /\ s # t /\ InFlight(s, "start") /\ InFlight(t, "start")
        /\ session[s].user = session[t].user
        /\ Cardinality(ProfileRows(db, session[s].user)) = 1
        /\ SelectStats(db, session[s].user).row = <<0, 0>>

\* C11: a listing whose price parses to zero or less is refused as invalid
\* input, and neither the tables nor what is on disk change.
C11_NonPositivePriceRejected ==
    \A u \in Users : \A args \in SellArgs :
        (Len(args) >= 2 /\ ParseFloat(args[Len(args)]).ok
         /\ ParseFloat(args[Len(args)]).val <= 0)
        => LET r == SellStep(Store, u, args, NoFault)
           IN /\ r.kind \in {"usage", "bad_price"}
              /\ r.st.db = db
              /\ r.st.disk = disk

\* the reply of a handler, without the connection it leaves behind
Reply(r) == [kind |-> r.kind, val |-> r.val, stats |-> r.stats,
             listing |-> r.listing]

\* the connection as it would be had the newest item never been listed
WithoutNewestItem(st) ==
    [st EXCEPT !.db.items = SubSeq(@, 1, Len(@) - 1),
               !.disk.items = SubSeq(@, 1, Len(@) - 1)]

\* C12: a purchase of an id that is absent and a purchase of an id that is
\* present with stock 0 get the same reply, OutOfStockOrNotFound, and change
\* nothing: in one state for any two such ids, and for the newest item, sold
\* out, against the state that differs only in that item never having existed.
C12_NotFoundSameAsSoldOut ==
    \A u \in Users :
        /\ \A gone \in ItemIds(db) : \A absent \in 0..(MaxItems + 1) :
            (db.items[gone].stock = 0 /\ absent \notin ItemIds(db)) =>
                LET a == BuyStep(Store, u, IdText(absent), NoFault)
                    b == BuyStep(Store, u, IdText(gone), NoFault)
                IN /\ Reply(a) = Reply(b)
                   /\ a.kind = "OutOfStockOrNotFound"
                   /\ a.st = Store /\ b.st = Store
        /\ (db.items # <<>> /\ db.items[Len(db.items)].stock = 0) =>
                LET n == Len(db.items)
                    never == WithoutNewestItem(Store)
                    a == BuyStep(never, u, IdText(n), NoFault)
                    b == BuyStep(Store, u, IdText(n), NoFault)
                IN /\ Reply(a) = Reply(b)
                   /\ a.kind = "OutOfStockOrNotFound"
                   /\ a.st = never /\ b.st = Store

\* a purchase of an absent id and a purchase of a sold-out item have both just
\* been refused
C12_Witness ==
    \E s, t \in Sessions :
        /\ InFlight(s, "buy") /\ InFlight(t, "buy")
        /\ session[s].kind = "OutOfStockOrNotFound"
        /\ session[t].kind = "OutOfStockOrNotFound"
        /\ session[s].arg \notin ItemIds(db)
        /\ session[t].arg \in ItemIds(db)
        /\ db.items[session[t].arg].stock = 0
        /\ session[s].val = session[t].val

\* the /sell arguments that pass sell's own checks
GoodSellArgs ==
    {args \in SellArgs : Len(args) >= 2 /\ ParseFloat(args[Len(args)]).ok}

\* C13: a listing gets an id above every item id in use and leaves every
\* earlier item under its id; a purchase gets an order id above every order
\* id in use and leaves every earlier order under its id; and the ids that
\* overlapping handlers report are pairwise distinct.
C13_IdsIncreaseNeverReused ==
    /\ \A u \in Users : \A args \in GoodSellArgs :
        LET r == SellStep(Store, u, args, NoFault)
        IN /\ r.kind = "listed"
           /\ \A i \in ItemIds(db) : r.val > i
           /\ ItemIds(r.st.db) = ItemIds(db) \cup {r.val}
           /\ \A i \in ItemIds(db) :
                r.st.db.items[i].seller_id = db.items[i].seller_id
           /\ r.st.db.items[r.val].seller_id = u
           /\ r.st.disk.items = r.st.db.items
    /\ \A u \in Users : \A i \in ItemIds(db) :
        db.items[i].stock > 0 =>
            LET r == BuyStep(Store, u, IdText(i), NoFault)
            IN /\ r.kind = "ordered"
               /\ \A k \in DOMAIN db.orders : r.val > k
               /\ DOMAIN r.st.db.orders = DOMAIN db.orders \cup {r.val}
               /\ \A k \in DOMAIN db.orders : r.st.db.orders[k] = db.orders[k]
               /\ r.st.disk.orders = r.st.db.orders
    /\ \A s, t \in Sessions :
        (s # t /\ session[s].pc = "replying" /\ session[t].pc = "replying"
         /\ session[s].op = session[t].op
         /\ session[s].kind = session[t].kind
         /\ session[s].kind \in {"listed", "ordered"})
        => session[s].val # session[t].val

\* two listings overlap, the later one with the higher id, and a purchase has
\* already created an order
C13_Witness ==
    \E s, t \in Sessions :
        /\ InFlight(s, "sell") /\ InFlight(t, "sell")
        /\ session[s].kind = "listed" /\ session[t].kind = "listed"
        /\ session[s].val < session[t].val
        /\ session[t].val = Len(db.items)
        /\ db.orders # <<>>

\* C14: /profile always answers with counters, never with "no profile", and
\* leaves the caller with a committed profile; for a caller without one the
\* counters it reports are (0, 0).
C14_ProfileMaterialised ==
    \A u \in Users :
        LET r == ProfileStep(Store, u, NoFault)
        IN /\ r.kind = "stats"
           /\ Cardinality(ProfileRows(r.st.db, u)) = 1
           /\ Cardinality(ProfileRows(r.st.disk, u)) = 1
           /\ ~HasProfile(db, u) => r.stats = <<0, 0>>

\* a user who has listed and bought nothing has just been shown a profile,
\* next to another user's listing
C14_Witness ==
    \E s \in Sessions :
        /\ InFlight(s, "profile") /\ session[s].kind = "stats"
        /\ ItemsOfSeller(db, session[s].user) = {}
        /\ OrdersOfUser(db, session[s].user) = {}
        /\ SelectStats(db, session[s].user) = [found |-> TRUE, row |-> <<0, 0>>]
        /\ db.items # <<>>

C17_ReportedOrderIsOwn ==
    /\ \A u \in Users : \A i \in ItemIds(db) :
        db.items[i].stock > 0 =>
            LET r == BuyStep(Store, u, IdText(i), NoFault)
            IN /\ r.val \in DOMAIN r.st.db.orders
               /\ r.val \notin DOMAIN db.orders
               /\ r.st.db.orders[r.val] =
                    [user_id |-> u, item_id |-> i, status |-> "pending_payment"]
    /\ \A s \in Sessions :
        (InFlight(s, "buy") /\ session[s].kind = "ordered") =>
            /\ session[s].val \in DOMAIN db.orders
            /\ db.orders[session[s].val].user_id = session[s].user
            /\ db.orders[session[s].val].item_id = session[s].arg

\* a purchase's reply is on its way and a later listing has moved the shared
\* cursor's lastrowid away from the order id
C17_Witness ==
    \E s, t \in Sessions :
        /\ InFlight(s, "buy") /\ session[s].kind = "ordered"
        /\ InFlight(t, "sell") /\ session[t].kind = "listed"
        /\ lastrowid = session[t].val
        /\ lastrowid # session[s].val

\* C18: every order names an item that exists, in the connection's view and
\* on disk.
C18_OrdersNameItems ==
    /\ \A k \in DOMAIN db.orders : db.orders[k].item_id \in ItemIds(db)
    /\ \A k \in DOMAIN disk.orders : disk.orders[k].item_id \in ItemIds(disk)

\* an order exists, and a purchase of an id that no item has was refused
C18_Witness ==
    /\ db.orders # <<>>
    /\ \E s \in Sessions :
        /\ InFlight(s, "buy")
        /\ session[s].kind = "OutOfStockOrNotFound"
        /\ session[s].arg \notin ItemIds(db)

\* the outcomes of every handler on every input, from the present state
AllSteps ==
    {ShopStep(Store, NoFault)}
    \cup {StartStep(Store, u, NoFault) : u \in Users}
    \cup {ProfileStep(Store, u, NoFault) : u \in Users}
    \cup {SellStep(Store, x[1], x[2], NoFault) : x \in Users \X SellArgs}
    \cup {BuyStep(Store, x[1], x[2], NoFault) : x \in Users \X BuyArgs}

\* C19: no handler removes an item or raises its stock, in the connection's
\* view or on disk; an item whose stock is 0 is not in the catalogue and a
\* purchase of it is refused with OutOfStockOrNotFound and changes nothing,
\* so it stays at 0.
C19_StockNeverReplenished ==
    \A i \in ItemIds(db) :
        /\ \A r \in AllSteps :
            /\ i \in ItemIds(r.st.db)
            /\ r.st.db.items[i].stock <= db.items[i].stock
            /\ i \in ItemIds(r.st.disk)
            /\ r.st.disk.items[i].stock <= disk.items[i].stock
        /\ db.items[i].stock = 0 =>
            /\ \A row \in ShopStep(Store, NoFault).listing : row.id # i
            /\ \A u \in Users :
                LET r == BuyStep(Store, u, IdText(i), NoFault)
                IN r.kind = "OutOfStockOrNotFound" /\ r.st.db = db
                   /\ r.st.disk = disk

\* the only item is sold out: a later purchase of it has been refused and a
\* later look at the catalogue found nothing
C19_Witness ==
    \E s, t \in Sessions :
        /\ InFlight(s, "buy") /\ session[s].kind = "OutOfStockOrNotFound"
        /\ session[s].arg \in ItemIds(db)
        /\ db.items[session[s].arg].stock = 0
        /\ OrdersOfItem(db, session[s].arg) # {}
        /\ InFlight(t, "shop") /\ session[t].kind = "empty"

\* C20: the catalogue leaves the tables as they are; the statistics leave
\* the items, the orders and every existing profile row as they are and add
\* at most a row of zeros for the caller.
C20_ReadsOnlyMaterialise ==
    /\ ShopStep(Store, NoFault).st = Store
    /\ \A u \in Users :
        LET r == ProfileStep(Store, u, NoFault)
            zero == [user_id |-> u, items_sold |-> DefaultCounter,
                     items_bought |-> DefaultCounter]
        IN /\ r.st.db.items = db.items /\ r.st.disk.items = disk.items
           /\ r.st.db.orders = db.orders /\ r.st.disk.orders = disk.orders
           /\ r.st.disk.profiles = r.st.db.profiles
           /\ HasProfile(db, u) => r.st.db.profiles = db.profiles
           /\ ~HasProfile(db, u) => r.st.db.profiles = PutRow(db.profiles, zero)

\* a catalogue and the statistics of a user who has listed an item are on
\* their way, and another user has a profile too
C20_Witness ==
    \E s, t \in Sessions :
        /\ InFlight(s, "shop") /\ session[s].kind = "catalog"
        /\ InFlight(t, "profile") /\ session[t].kind = "stats"
        /\ SoldOf(db, session[t].user) > 0
        /\ \E v \in Users : v # session[t].user /\ HasProfile(db, v)

====
